---- MODULE Spec2Model ----
(***************************************************************************)
(* A model of the PrizePicks scraper (src/app/scraper.py) and of the way   *)
(* the service (src/app/main.py) uses it: the token bucket, the request    *)
(* log, the retrying transport and the refresh of the store.               *)
(*                                                                         *)
(* Time is discrete.  One second is TicksPerSec ticks; a sleep of d        *)
(* seconds ends at the first tick that is at least d seconds later, and a  *)
(* thread may always be later than that (time.sleep is a lower bound).     *)
(* Tokens are counted in units of 1/TicksPerSec of a token, so that the    *)
(* refill (elapsed * rate) is exact.                                       *)
(***************************************************************************)
EXTENDS Integers, Sequences, FiniteSets, TLC

\* ------------------------------------------------------------- bounds
TicksPerSec == 4
MaxNow == 10
NThreads == 3
NRequests == 3
NRefreshers == 2
MaxRefreshes == 2
MaxRecs == 2
NSports == 2
MaxCalls == 3
ConcurrentCalls == 4
MaxDepth == 12
MaxFaults == 2
MaxBatch == 3
NPlayers == 2
NGames == 1
MaxStored == 5
MaxPage == 4
MaxPageSize == 3
NLeagues == 3
MaxListed == 3
MaxCached == 1
NInstances == 2
MaxQuanta == 3

\* ------------------------------------------------- program constants
Rate == 2
Burst == 5
RetryTotal == 5
BackoffFactorTimes2 == 3
QueueCeiling == 10
QueueWindowSec == 60
DefaultRetryAfterSec == 5
SampleSize == 10
CACHE_EXPIRY == 900
DelayMinSec == 1
DelayMaxSec == 2

VARIABLES
    now,            \* time.time(), in ticks since the limiter was constructed
    rate_limiter,   \* RateLimiter: [tokens, last_update]
    acquired,       \* history: number of acquire() calls that returned 0
    request_queue,  \* self.request_queue: the times of the logged requests
    queue_lock,     \* self.queue_lock: the thread holding it, or 0
    thr,            \* per thread: where it is in _make_request
    sent,           \* history: every HTTP request put on the wire
    upstream,       \* what the upstream service answers in this run
    faults,         \* number of failing answers given so far
    callers,        \* the threads that call _make_request in this run
    quota,          \* the number of calls each of them makes at most
    scrapers,       \* the PrizePicksScraper instances the service has built
    req,            \* per incoming service request: its scraper, its progress
    projections,    \* the projections collection, in insertion order
    rf,             \* per refresher: where it is in _refresh_projections_from_api
    rd,             \* the reader: where it is in get_projections
    refreshes,      \* the number of refreshes begun so far
    players,        \* the players collection, in insertion order
    games,          \* the games collection, in insertion order
    response,       \* the upstream document of the refresh pass at hand
    norm,           \* what that pass normalized and how it ended
    prior,          \* history: the collections as the last pass found them
    out             \* the last read: its arguments and what it returned

vars == <<now, rate_limiter, acquired, request_queue, queue_lock, thr, sent,
          upstream, faults, callers, quota, scrapers, req, projections, rf, rd,
          refreshes, players, games, response, norm, prior, out>>

serviceVars == <<scrapers, req>>

storeVars == <<projections, rf, rd, refreshes>>

catalogVars == <<players, games, response, norm, prior, out>>

transportVars == <<request_queue, queue_lock, thr, sent, upstream, faults,
                   callers, quota>>

Min(a, b) == IF a <= b THEN a ELSE b
CeilDiv(a, b) == (a + b - 1) \div b

\* ------------------------------------------------------ RateLimiter
OneToken == TicksPerSec

RateLimiterInit(t) == [tokens |-> Burst * OneToken, last_update |-> t]

\* The bucket after the refill of acquire(): lines 44-48.
Refill(lim, t) ==
    [tokens |-> Min(Burst * OneToken, lim.tokens + (t - lim.last_update) * Rate),
     last_update |-> t]

\* Mutant: the refill forgets to move last_update forward.
AcquireStaleUpdate(lim, t) ==
    LET r == [Refill(lim, t) EXCEPT !.last_update = lim.last_update]
    IN  IF r.tokens >= OneToken
        THEN [lim |-> [r EXCEPT !.tokens = @ - OneToken], wait |-> 0]
        ELSE [lim |-> r, wait |-> CeilDiv(OneToken - r.tokens, Rate)]

\* Mutant: acquire() takes its token although less than one is there.
AcquireOverdraw(lim, t) ==
    LET r == Refill(lim, t)
    IN  IF r.tokens >= OneToken
        THEN [lim |-> [r EXCEPT !.tokens = @ - OneToken], wait |-> 0]
        ELSE [lim |-> [r EXCEPT !.tokens = @ - OneToken],
              wait |-> CeilDiv(OneToken - r.tokens, Rate)]

\* acquire(): the limiter afterwards and the wait returned, in ticks.
Acquire(lim, t) ==
    LET r == Refill(lim, t)
    IN  IF r.tokens >= OneToken
        THEN [lim |-> [r EXCEPT !.tokens = @ - OneToken], wait |-> 0]
        ELSE [lim |-> r, wait |-> CeilDiv(OneToken - r.tokens, Rate)]

\* The parts of the state a specification leaves alone.
ServiceUnused ==
    /\ scrapers = <<>>
    /\ req = <<>>

StoreUnused ==
    /\ projections = <<>>
    /\ rf = <<>>
    /\ rd = <<>>
    /\ refreshes = 0

CatalogUnused ==
    /\ players = <<>>
    /\ games = <<>>
    /\ response = <<>>
    /\ norm = <<>>
    /\ prior = <<>>
    /\ out = <<>>

\* ------------------------------------------- the bucket on its own
BucketInit ==
    /\ now = 0
    /\ rate_limiter = RateLimiterInit(0)
    /\ acquired = 0
    /\ request_queue = <<>>
    /\ queue_lock = 0
    /\ thr = <<>>
    /\ sent = <<>>
    /\ upstream = "ok"
    /\ faults = 0
    /\ callers = {}
    /\ quota = 0
    /\ ServiceUnused
    /\ StoreUnused
    /\ CatalogUnused

Tick ==
    /\ now < MaxNow
    /\ now' = now + 1
    /\ UNCHANGED <<rate_limiter, acquired>>
    /\ UNCHANGED <<transportVars, serviceVars, storeVars, catalogVars>>

\* Any caller, at any time: the lock makes concurrent calls a sequence.
AcquireCall ==
    /\ LET a == Acquire(rate_limiter, now)
       IN  /\ rate_limiter' = a.lim
           /\ acquired' = IF a.wait = 0 THEN acquired + 1 ELSE acquired
    /\ UNCHANGED now
    /\ UNCHANGED <<transportVars, serviceVars, storeVars, catalogVars>>

BucketNext == Tick \/ AcquireCall

SpecBucket == BucketInit /\ [][BucketNext]_vars

\* ------------------------------------ PrizePicksScraper._make_request
Threads == 1..NThreads

Secs(n) == n * TicksPerSec
HalfSecs(n) == CeilDiv(n * TicksPerSec, 2)
TenthSecs(n) == CeilDiv(n * TicksPerSec, 10)

Pow2(n) == IF n <= 0 THEN 1 ELSE 2 ^ n

\* Mutant: 429 is left out of the statuses the adapter retries.
StatusForcelistNo429 == {"500", "502", "503", "504"}

\* Retry(status_forcelist=[429, 500, 502, 503, 504]); "conn" is a connection
\* failure, which has no status.
StatusForcelist == {"429", "500", "502", "503", "504"}

Failing == {"403", "404", "429", "500", "conn"}

\* What the upstream service may answer to one request.
Answers ==
    CASE upstream = "ok" -> {"200"}
      [] upstream = "blocked" -> {"403"}
      [] upstream = "limited" -> {"429"}
      [] upstream = "down" -> {"500"}
      [] upstream = "unreachable" -> {"conn"}
      [] OTHER -> {"200"} \cup (IF faults < MaxFaults THEN Failing ELSE {})

Upstreams == {"ok", "blocked", "limited", "down", "unreachable", "flaky"}

\* The adapter retries these answers itself (urllib3 Retry, total=5).
AdapterRetries(st) == st \in StatusForcelist \/ st = "conn"

\* Mutant: the adapter allows one retry more.
ExhaustedLate(retries) == retries > RetryTotal

\* Retry(total=5): no retry is left.
Exhausted(retries) == retries >= RetryTotal

\* Mutant: the adapter waits the same time before every retry.
BackoffFlat(n) == HalfSecs(BackoffFactorTimes2)

\* The adapter's sleep before the n-th retry (backoff_factor=1.5): none
\* before the first, then backoff_factor * 2^(n-1) seconds.
Backoff(n) ==
    IF n <= 1 THEN 0
    ELSE CeilDiv(BackoffFactorTimes2 * Pow2(n - 1) * TicksPerSec, 2)

\* _handle_rate_limit without a Retry-After header: 5 s plus a jitter of at
\* least 0.1 s.
HandleRateLimit == Secs(DefaultRetryAfterSec) + TenthSecs(1)

IdleThread ==
    [pc |-> "idle", wake |-> 0, depth |-> 0, retries |-> 0, attempts |-> 0,
     calls |-> 0, outcome |-> "none", gates |-> <<>>, q_len |-> 0, q_at |-> 0,
     ident |-> 0]

\* Mutant: the device id and the session token are made once.
Uuid4Once(log) == 1

\* Lines 247-253: uuid.uuid4() for the session token and the device id of
\* one request, a value no earlier request carried.
Uuid4(log) == Len(log) + 1

\* A scraper just constructed (lines 154-176), nothing sent yet.
ScraperInit ==
    /\ now = 0
    /\ rate_limiter = RateLimiterInit(0)
    /\ acquired = 0
    /\ request_queue = <<>>
    /\ queue_lock = 0
    /\ thr = [t \in Threads |-> IdleThread]
    /\ sent = <<>>
    /\ faults = 0
    /\ ServiceUnused
    /\ StoreUnused
    /\ CatalogUnused

\* One caller at a time, against every kind of upstream behaviour.
TransportInit ==
    /\ ScraperInit
    /\ upstream \in Upstreams
    /\ callers = {1}
    /\ quota = MaxCalls

\* Several threads calling the same scraper back to back; the upstream
\* service answers every request.
ConcurrentInit ==
    /\ ScraperInit
    /\ upstream = "ok"
    /\ callers = Threads
    /\ quota = ConcurrentCalls

\* A caller enters _make_request.
Call(t) ==
    /\ thr[t].pc \in {"idle", "rested"}
    /\ thr[t].calls < quota
    /\ thr' = [thr EXCEPT ![t] = [IdleThread EXCEPT !.pc = "acquire",
                                                   !.calls = thr[t].calls + 1]]
    /\ UNCHANGED <<now, rate_limiter, acquired, request_queue, queue_lock,
                   sent, upstream, faults, callers, quota>>
    /\ UNCHANGED <<serviceVars, storeVars, catalogVars>>

\* Lines 226-229: acquire(), then sleep for the wait it returned.
RateLimitStep(t) ==
    /\ thr[t].pc = "acquire"
    /\ LET a == Acquire(rate_limiter, now)
       IN  /\ rate_limiter' = a.lim
           /\ acquired' = IF a.wait = 0 THEN acquired + 1 ELSE acquired
           /\ thr' = [thr EXCEPT ![t].pc = "rl_sleep",
                                 ![t].wake = now + a.wait,
                                 ![t].gates = Append(@, "acquire")]
    /\ UNCHANGED <<now, request_queue, queue_lock, sent, upstream, faults,
                   callers, quota>>
    /\ UNCHANGED <<serviceVars, storeVars, catalogVars>>

\* The purge loop of lines 236-237.
RECURSIVE Purge(_, _)
Purge(q, t) ==
    IF q # <<>> /\ t - Head(q) > Secs(QueueWindowSec)
    THEN Purge(Tail(q), t)
    ELSE q

\* Mutant: the log is never found too long.
QueueNeverFull(q) == FALSE

\* Line 240: the log is too long.
QueueFull(q) == Len(q) > QueueCeiling

\* Lines 232-243: log the request, purge, and sleep 1-3 s under the lock
\* when the log is too long.  Line 267 then sleeps 0.5-1.5 s.
QueueStep(t) ==
    /\ thr[t].pc = "rl_sleep"
    /\ now >= thr[t].wake
    /\ queue_lock = 0
    /\ LET q == Purge(Append(request_queue, now), now)
       IN  /\ request_queue' = q
           /\ IF QueueFull(q)
              THEN /\ queue_lock' = t
                   /\ thr' = [thr EXCEPT ![t].pc = "q_sleep",
                                         ![t].wake = now + Secs(1),
                                         ![t].gates = Append(@, "queue"),
                                         ![t].q_len = Len(q),
                                         ![t].q_at = now]
              ELSE /\ queue_lock' = 0
                   /\ thr' = [thr EXCEPT ![t].pc = "delay",
                                         ![t].wake = now + HalfSecs(1),
                                         ![t].gates = Append(@, "queue"),
                                         ![t].q_len = Len(q),
                                         ![t].q_at = now]
    /\ UNCHANGED <<now, rate_limiter, acquired, sent, upstream, faults,
                   callers, quota>>
    /\ UNCHANGED <<serviceVars, storeVars, catalogVars>>

\* The sleep of line 243 is over: leave the lock, go on to line 267.
QueueRelease(t) ==
    /\ thr[t].pc = "q_sleep"
    /\ now >= thr[t].wake
    /\ queue_lock' = 0
    /\ thr' = [thr EXCEPT ![t].pc = "delay", ![t].wake = now + HalfSecs(1)]
    /\ UNCHANGED <<now, rate_limiter, acquired, request_queue, sent,
                   upstream, faults, callers, quota>>
    /\ UNCHANGED <<serviceVars, storeVars, catalogVars>>

\* What becomes of the thread once the answer st is in: the adapter's
\* retries (lines 158-169), then lines 281-301.
Respond(self, st) ==
    IF AdapterRetries(st)
    THEN IF Exhausted(self.retries)
         THEN [self EXCEPT !.pc = "idle", !.depth = 0,
                           !.outcome = IF st = "conn" THEN "RequestException"
                                       ELSE "RetryError"]
         ELSE [self EXCEPT !.pc = "backoff",
                           !.retries = @ + 1,
                           !.wake = now + Backoff(self.retries + 1)]
    ELSE IF st = "403"
    THEN [self EXCEPT !.pc = "sleep403", !.wake = now + Secs(1)]
    ELSE IF st = "429"
    THEN [self EXCEPT !.pc = "sleep429", !.wake = now + HandleRateLimit]
    ELSE IF st = "200"
    THEN [self EXCEPT !.pc = "idle", !.depth = 0, !.outcome = "document"]
    ELSE [self EXCEPT !.pc = "idle", !.depth = 0, !.outcome = "RequestException"]

\* The request goes out with the headers and cookies ident stands for
\* (x-device-id, x-pp-session, pp_session, pp_device_id) and is answered.
Wire(t, st, ident) ==
    /\ sent' = Append(sent, [at |-> now, gates |-> thr[t].gates,
                             q_len |-> thr[t].q_len, q_at |-> thr[t].q_at,
                             status |-> st, ident |-> ident,
                             retry |-> thr[t].retries])
    /\ faults' = IF st \in Failing THEN faults + 1 ELSE faults
    /\ thr' = [thr EXCEPT ![t] = Respond([thr[t] EXCEPT !.attempts = @ + 1,
                                                       !.gates = <<>>,
                                                       !.ident = ident], st)]

\* Lines 269-275: session.get puts the request on the wire.
Send(t) ==
    /\ thr[t].pc = "delay"
    /\ now >= thr[t].wake
    /\ \E st \in Answers : Wire(t, st, Uuid4(sent))
    /\ UNCHANGED <<now, rate_limiter, acquired, request_queue, queue_lock,
                   upstream, callers, quota>>
    /\ UNCHANGED <<serviceVars, storeVars, catalogVars>>

\* The adapter sends the same request again after its backoff.
Resend(t) ==
    /\ thr[t].pc = "backoff"
    /\ now >= thr[t].wake
    /\ \E st \in Answers : Wire(t, st, thr[t].ident)
    /\ UNCHANGED <<now, rate_limiter, acquired, request_queue, queue_lock,
                   upstream, callers, quota>>
    /\ UNCHANGED <<serviceVars, storeVars, catalogVars>>

\* Lines 281-284 and 286-290: after the sleep, _make_request calls itself.
Recurse(t) ==
    /\ thr[t].pc \in {"sleep403", "sleep429"}
    /\ now >= thr[t].wake
    /\ thr[t].depth < MaxDepth
    /\ thr' = [thr EXCEPT ![t].pc = "acquire", ![t].depth = @ + 1,
                          ![t].retries = 0]
    /\ UNCHANGED <<now, rate_limiter, acquired, request_queue, queue_lock,
                   sent, upstream, faults, callers, quota>>
    /\ UNCHANGED <<serviceVars, storeVars, catalogVars>>

Asleep(t) ==
    /\ thr[t].pc \in {"rl_sleep", "q_sleep", "delay", "backoff", "sleep403",
                      "sleep429"}
    /\ thr[t].wake > now

\* The thread can take a step of _make_request now.
Ready(t) ==
    \/ thr[t].pc = "acquire"
    \/ thr[t].pc \in {"idle", "rested"} /\ thr[t].calls < quota
    \/ /\ thr[t].pc \in {"q_sleep", "delay", "backoff"}
       /\ now >= thr[t].wake
    \/ /\ thr[t].pc = "rl_sleep"
       /\ now >= thr[t].wake
       /\ queue_lock = 0
    \/ /\ thr[t].pc \in {"sleep403", "sleep429"}
       /\ now >= thr[t].wake
       /\ thr[t].depth < MaxDepth

\* Time passes until the next sleeper is due; a thread that can run, runs
\* first.
Elapse ==
    /\ \A t \in callers : ~Ready(t)
    /\ \E t \in callers : Asleep(t)
    /\ now' = CHOOSE w \in {thr[t].wake : t \in {u \in callers : Asleep(u)}} :
                  \A t \in callers : Asleep(t) => w <= thr[t].wake
    /\ UNCHANGED <<rate_limiter, acquired, request_queue, queue_lock, thr,
                   sent, upstream, faults, callers, quota>>
    /\ UNCHANGED <<serviceVars, storeVars, catalogVars>>

\* The caller lets some time pass before its next call.
Rest(t) ==
    /\ thr[t].pc = "idle"
    /\ thr[t].calls \in 1..(quota - 1)
    /\ \E gap \in {1, QueueWindowSec} : now' = now + Secs(gap)
    /\ thr' = [thr EXCEPT ![t].pc = "rested"]
    /\ UNCHANGED <<rate_limiter, acquired, request_queue, queue_lock, sent,
                   upstream, faults, callers, quota>>
    /\ UNCHANGED <<serviceVars, storeVars, catalogVars>>

TransportNext ==
    \/ Elapse
    \/ \E t \in callers : Call(t)
    \/ \E t \in callers : Rest(t)
    \/ \E t \in callers : RateLimitStep(t)
    \/ \E t \in callers : QueueStep(t)
    \/ \E t \in callers : QueueRelease(t)
    \/ \E t \in callers : Send(t)
    \/ \E t \in callers : Resend(t)
    \/ \E t \in callers : Recurse(t)

SpecTransport == TransportInit /\ [][TransportNext]_vars

\* A thread that can run does run, and sleeps end.
FairTransport == SpecTransport /\ WF_vars(TransportNext)

ConcurrentNext ==
    \/ Elapse
    \/ \E t \in callers : Call(t)
    \/ \E t \in callers : RateLimitStep(t)
    \/ \E t \in callers : QueueStep(t)
    \/ \E t \in callers : QueueRelease(t)
    \/ \E t \in callers : Send(t)

SpecConcurrent == ConcurrentInit /\ [][ConcurrentNext]_vars

\* ------------------------------------------------ main.py: get_scraper
Requests == 1..NRequests

\* PrizePicksScraper.__init__, lines 154-176: a limiter and a request log
\* of the instance's own.
NewScraper(t) == [rate_limiter |-> RateLimiterInit(t), request_queue |-> <<>>]

ServiceInit ==
    /\ now = 0
    /\ rate_limiter = RateLimiterInit(0)
    /\ acquired = 0
    /\ request_queue = <<>>
    /\ queue_lock = 0
    /\ thr = <<>>
    /\ sent = <<>>
    /\ upstream = "ok"
    /\ faults = 0
    /\ callers = {}
    /\ quota = 0
    /\ scrapers = <<>>
    /\ req = [r \in Requests |-> [pc |-> "new", scraper |-> 0, waited |-> 0]]
    /\ StoreUnused
    /\ CatalogUnused

\* Depends(get_scraper), main.py lines 27-32: the scraper this request is
\* served with.
GetScraper(r) ==
    /\ req[r].pc = "new"
    /\ scrapers' = Append(scrapers, NewScraper(now))
    /\ req' = [req EXCEPT ![r].pc = "serving", ![r].scraper = Len(scrapers) + 1]
    /\ UNCHANGED <<now, rate_limiter, acquired, transportVars, storeVars, catalogVars>>

\* The handler's upstream request: lines 226-237 on the request's scraper.
ServiceFetch(r) ==
    /\ req[r].pc = "serving"
    /\ LET k == req[r].scraper
           a == Acquire(scrapers[k].rate_limiter, now)
       IN  /\ scrapers' = [scrapers EXCEPT
                              ![k].rate_limiter = a.lim,
                              ![k].request_queue = Purge(Append(@, now), now)]
           /\ req' = [req EXCEPT ![r].pc = "served", ![r].waited = a.wait]
    /\ UNCHANGED <<now, rate_limiter, acquired, transportVars, storeVars, catalogVars>>

ServiceTick ==
    /\ now < MaxNow
    /\ now' = now + 1
    /\ UNCHANGED <<rate_limiter, acquired, transportVars, serviceVars, storeVars, catalogVars>>

ServiceNext ==
    \/ ServiceTick
    \/ \E r \in Requests : GetScraper(r)
    \/ \E r \in Requests : ServiceFetch(r)

SpecService == ServiceInit /\ [][ServiceNext]_vars

\* ------------------------------- the store and the refresh of a sport
Sports == 1..NSports
Refreshers == 1..NRefreshers

\* One primary record of an upstream response, as far as the refresh reads
\* it: the league it names and whether reading it raises KeyError or
\* ValueError (lines 512-547).  Its id is its place in "data".
RawRecords == [league : Sports, defect : {"none", "KeyError"}]

\* The "data" arrays of the responses.
Responses == UNION {[1..n -> RawRecords] : n \in 0..MaxRecs}

\* Lines 509-583: the projection documents of the well-formed records, in
\* order; a record that raises is skipped.
RECURSIVE Normalize(_, _)
Normalize(data, i) ==
    IF i > Len(data) THEN <<>>
    ELSE IF data[i].defect = "none"
    THEN <<[id |-> i, sport_id |-> data[i].league]>> \o Normalize(data, i + 1)
    ELSE Normalize(data, i + 1)

\* find({"sport_id": s}) and count_documents({"sport_id": s}).
Find(coll, s) == SelectSeq(coll, LAMBDA d : d.sport_id = s)
CountDocuments(coll, s) == Len(Find(coll, s))

\* delete_many({"sport_id": s}).
DeleteMany(coll, s) == SelectSeq(coll, LAMBDA d : d.sport_id # s)

IdleRefresher ==
    [pc |-> "idle", sport |-> 0, docs |-> <<>>, normalized |-> 0, pre |-> 0,
     post |-> 0, result |-> "none"]

\* What the store and its refreshes leave alone.
StoreFrame ==
    UNCHANGED <<now, rate_limiter, acquired, transportVars, serviceVars,
                catalogVars>>

IdleReader ==
    [pc |-> "idle", sport |-> 0, total_count |-> 0, items |-> 0,
     mid_count |-> FALSE, mid_find |-> FALSE]

StoreInit ==
    /\ now = 0
    /\ rate_limiter = RateLimiterInit(0)
    /\ acquired = 0
    /\ request_queue = <<>>
    /\ queue_lock = 0
    /\ thr = <<>>
    /\ sent = <<>>
    /\ upstream = "ok"
    /\ faults = 0
    /\ callers = {}
    /\ quota = 0
    /\ ServiceUnused
    /\ projections = <<>>
    /\ rf = [w \in Refreshers |-> IdleRefresher]
    /\ rd = IdleReader
    /\ refreshes = 0
    /\ CatalogUnused

\* A refresh of sport s is under way and the sport had data when it began.
Refreshing(s) ==
    \E w \in Refreshers :
        /\ rf[w].pc \in {"fetch", "delete", "insert", "upsert"}
        /\ rf[w].sport = s
        /\ rf[w].pre > 0

\* _refresh_projections_from_api(s) is entered.
RefreshStart(w, s) ==
    /\ rf[w].pc \in {"idle", "done"}
    /\ refreshes < MaxRefreshes
    /\ refreshes' = refreshes + 1
    /\ rf' = [rf EXCEPT ![w] = [IdleRefresher EXCEPT
                                   !.pc = "fetch",
                                   !.sport = s,
                                   !.pre = CountDocuments(projections, s)]]
    /\ UNCHANGED <<projections, rd>>
    /\ StoreFrame

\* Line 484: _make_request raises, and so does the refresh.
FetchRaises(w) ==
    /\ rf[w].pc = "fetch"
    /\ rf' = [rf EXCEPT ![w].pc = "done", ![w].result = "raised"]
    /\ UNCHANGED <<projections, rd, refreshes>>
    /\ StoreFrame

\* Lines 486-488: the response lacks "data" or "included".
FetchInvalid(w) ==
    /\ rf[w].pc = "fetch"
    /\ rf' = [rf EXCEPT ![w].pc = "done", ![w].result = "invalid"]
    /\ UNCHANGED <<projections, rd, refreshes>>
    /\ StoreFrame

\* Lines 484-586: the response is a document, and it is normalized.
FetchDocument(w) ==
    /\ rf[w].pc = "fetch"
    /\ \E data \in Responses :
          LET docs == Normalize(data, 1)
          IN  rf' = [rf EXCEPT ![w].docs = docs,
                               ![w].normalized = Len(docs),
                               ![w].pc = IF docs # <<>> THEN "delete"
                                         ELSE "upsert"]
    /\ UNCHANGED <<projections, rd, refreshes>>
    /\ StoreFrame

\* Line 588.
RefreshDelete(w) ==
    /\ rf[w].pc = "delete"
    /\ projections' = DeleteMany(projections, rf[w].sport)
    /\ rf' = [rf EXCEPT ![w].pc = "insert"]
    /\ UNCHANGED <<rd, refreshes>>
    /\ StoreFrame

\* Line 590.
RefreshInsert(w) ==
    /\ rf[w].pc = "insert"
    /\ projections' = projections \o rf[w].docs
    /\ rf' = [rf EXCEPT ![w].pc = "upsert", ![w].docs = <<>>]
    /\ UNCHANGED <<rd, refreshes>>
    /\ StoreFrame

\* Lines 593-611 write the players and the games and leave the projections
\* alone; the refresh then returns.
RefreshReturn(w) ==
    /\ rf[w].pc = "upsert"
    /\ rf' = [rf EXCEPT ![w].pc = "done", ![w].result = "stored",
                        ![w].post = CountDocuments(projections, rf[w].sport)]
    /\ UNCHANGED <<projections, rd, refreshes>>
    /\ StoreFrame

\* get_projections(sport_id=s), line 409.
ReadCount(s) ==
    /\ rd.pc \in {"idle", "got"}
    /\ rd' = [IdleReader EXCEPT !.pc = "find", !.sport = s,
                                !.total_count = CountDocuments(projections, s),
                                !.mid_count = Refreshing(s)]
    /\ UNCHANGED <<projections, rf, refreshes>>
    /\ StoreFrame

\* Line 421, and the answer of lines 458-461.
ReadFind ==
    /\ rd.pc = "find"
    /\ rd' = [rd EXCEPT !.pc = "got",
                        !.items = Len(Find(projections, rd.sport)),
                        !.mid_find = Refreshing(rd.sport)]
    /\ UNCHANGED <<projections, rf, refreshes>>
    /\ StoreFrame

StoreNext ==
    \/ \E w \in Refreshers, s \in Sports : RefreshStart(w, s)
    \/ \E w \in Refreshers : FetchRaises(w)
    \/ \E w \in Refreshers : FetchInvalid(w)
    \/ \E w \in Refreshers : FetchDocument(w)
    \/ \E w \in Refreshers : RefreshDelete(w)
    \/ \E w \in Refreshers : RefreshInsert(w)
    \/ \E w \in Refreshers : RefreshReturn(w)
    \/ \E s \in Sports : ReadCount(s)
    \/ ReadFind

SpecStore == StoreInit /\ [][StoreNext]_vars

\* ------------------------------------ one pass of the normalization
PlayerIds == 1..NPlayers
GameIds == 1..NGames

\* The names the "included" records give to players and leagues.
PlayerName(p) ==
    CASE p = 1 -> "LeBron James"
      [] p = 2 -> "James Harden"
      [] p = 4 -> "James"
      [] OTHER -> "Kevin Durant"

SportName(s) == IF s = 1 THEN "NBA" ELSE "NFL"

\* What can be wrong with one primary record.
Defects ==
    {"missing_key", "null_relationship", "bad_line_score", "null_line_score",
     "bad_league_id", "non_string_start_time", "unparsable_start_time"}

\* The exception the body of the loop raises on such a record: a missing
\* key at line 512 or 515, None["id"] at line 512, int() of a non-numeric
\* league id at line 543, float() of a non-numeric string or of None at
\* line 547, .replace on a start time that is no string at line 534.  An
\* unparsable start time raises ValueError inside the try of lines 533-536,
\* which leaves start_time None.
Raises(defect) ==
    CASE defect = "missing_key" -> "KeyError"
      [] defect = "null_relationship" -> "TypeError"
      [] defect = "bad_line_score" -> "ValueError"
      [] defect = "null_line_score" -> "TypeError"
      [] defect = "bad_league_id" -> "ValueError"
      [] defect = "non_string_start_time" -> "AttributeError"
      [] OTHER -> "none"

\* Line 582: except (KeyError, ValueError).
Caught(exc) == exc \in {"KeyError", "ValueError"}

\* Mutant: a player missing from "included" keeps no placeholder.
PlayerNameOfNoDefault(rec) == PlayerName(rec.player)

\* Line 525: the name of the referenced player, or the placeholder.
PlayerNameOf(rec) ==
    IF rec.resolved THEN PlayerName(rec.player) ELSE "Unknown Player"

\* Lines 544, 563, 572: the name of the referenced league, or the placeholder.
SportNameOf(rec) ==
    IF rec.resolved THEN SportName(rec.league) ELSE "Unknown"

\* Lines 539-554: the projection document of the i-th record.  game_id 0
\* stands for None.
ProjectionDoc(rec, i) ==
    [id |-> i, player_id |-> rec.player, player_name |-> PlayerNameOf(rec),
     sport_id |-> rec.league, sport_name |-> SportNameOf(rec),
     game_id |-> rec.game, stat_type |-> rec.stat_type]

\* Lines 559-565.
PlayerDoc(rec) ==
    [id |-> rec.player, name |-> PlayerNameOf(rec), sport_id |-> rec.league,
     sport_name |-> SportNameOf(rec)]

\* Lines 569-578.
GameDoc(rec) ==
    [id |-> rec.game, sport_id |-> rec.league, sport_name |-> SportNameOf(rec),
     players |-> <<rec.player>>]

\* The place of the document with this id in a dict or a collection, or 0.
IndexOf(docs, id) ==
    IF \E k \in 1..Len(docs) : docs[k].id = id
    THEN CHOOSE k \in 1..Len(docs) : docs[k].id = id
    ELSE 0

Elems(seq) == {seq[k] : k \in 1..Len(seq)}

\* Lines 558-565: player_docs after this record.
AddPlayer(player_docs, rec) ==
    IF IndexOf(player_docs, rec.player) = 0
    THEN Append(player_docs, PlayerDoc(rec))
    ELSE player_docs

\* Mutant: every record is added to its game's participants.
AddGameAlways(game_docs, rec) ==
    IF rec.game = 0 THEN game_docs
    ELSE IF IndexOf(game_docs, rec.game) = 0
    THEN Append(game_docs, GameDoc(rec))
    ELSE [game_docs EXCEPT ![IndexOf(game_docs, rec.game)].players =
                               Append(@, rec.player)]

\* Lines 567-580: game_docs after this record.
AddGame(game_docs, rec) ==
    IF rec.game = 0 THEN game_docs
    ELSE IF IndexOf(game_docs, rec.game) = 0
    THEN Append(game_docs, GameDoc(rec))
    ELSE IF rec.player \notin Elems(game_docs[IndexOf(game_docs, rec.game)].players)
    THEN [game_docs EXCEPT ![IndexOf(game_docs, rec.game)].players =
                               Append(@, rec.player)]
    ELSE game_docs

\* Lines 505-507.
EmptyPass ==
    [outcome |-> "ok", projection_docs |-> <<>>, player_docs |-> <<>>,
     game_docs |-> <<>>]

\* Lines 509-583 from the i-th record on.  An exception the handler does
\* not catch leaves the loop and the refresh; outcome names it.
RECURSIVE NormalizeFrom(_, _, _)
NormalizeFrom(data, i, acc) ==
    IF i > Len(data) THEN acc
    ELSE LET rec == data[i]
             exc == Raises(rec.defect)
         IN  IF exc = "none"
             THEN NormalizeFrom(data, i + 1,
                      [acc EXCEPT
                          !.projection_docs = Append(@, ProjectionDoc(rec, i)),
                          !.player_docs = AddPlayer(@, rec),
                          !.game_docs = AddGame(@, rec)])
             ELSE IF Caught(exc)
             THEN NormalizeFrom(data, i + 1, acc)
             ELSE [acc EXCEPT !.outcome = exc]

NormalizeBatch(data) == NormalizeFrom(data, 1, EmptyPass)

\* The primary records of the passes: every well-formed record of the
\* league asked for, and one record for each defect.
WellFormed(leagues) ==
    [player : PlayerIds, league : leagues, game : 0..NGames,
     resolved : BOOLEAN, stat_type : {"Points"}, defect : {"none"}]

Defective ==
    [player : {1}, league : {1}, game : {0}, resolved : {TRUE},
     stat_type : {"Points"}, defect : Defects]

Batches(records, n) == UNION {[1..k -> records] : k \in 0..n}

NormalizeInit ==
    /\ now = 0
    /\ rate_limiter = RateLimiterInit(0)
    /\ acquired = 0
    /\ request_queue = <<>>
    /\ queue_lock = 0
    /\ thr = <<>>
    /\ sent = <<>>
    /\ upstream = "ok"
    /\ faults = 0
    /\ callers = {}
    /\ quota = 0
    /\ ServiceUnused
    /\ StoreUnused
    /\ players = <<>>
    /\ games = <<>>
    /\ response \in Batches(WellFormed({1}) \cup Defective, MaxBatch)
    /\ norm = <<>>
    /\ prior = <<>>
    /\ out = <<>>

\* Lines 503-583 on the response at hand.
NormalizePass ==
    /\ norm = <<>>
    /\ norm' = NormalizeBatch(response)
    /\ UNCHANGED <<now, rate_limiter, acquired, transportVars, serviceVars,
                   storeVars, players, games, response, prior, out>>

NormalizeNext == NormalizePass

SpecNormalize == NormalizeInit /\ [][NormalizeNext]_vars

\* ------------------------------------------------- get_projections
\* A string as the sequence of its characters.
Chars(str) ==
    CASE str = "LeBron James" ->
            <<"L", "e", "B", "r", "o", "n", " ", "J", "a", "m", "e", "s">>
      [] str = "James Harden" ->
            <<"J", "a", "m", "e", "s", " ", "H", "a", "r", "d", "e", "n">>
      [] str = "Kevin Durant" ->
            <<"K", "e", "v", "i", "n", " ", "D", "u", "r", "a", "n", "t">>
      [] str = "Unknown Player" ->
            <<"U", "n", "k", "n", "o", "w", "n", " ", "P", "l", "a", "y", "e", "r">>
      [] str = "James" -> <<"J", "a", "m", "e", "s">>
      [] str = "james" -> <<"j", "a", "m", "e", "s">>
      [] str = "Points" -> <<"P", "o", "i", "n", "t", "s">>
      [] str = "points" -> <<"p", "o", "i", "n", "t", "s">>
      [] str = "3-PT Made" -> <<"3", "-", "P", "T", " ", "M", "a", "d", "e">>
      [] OTHER -> <<>>

\* The lower-case form of one character.
LowerChar(c) ==
    CASE c = "B" -> "b" [] c = "D" -> "d" [] c = "H" -> "h" [] c = "J" -> "j"
      [] c = "K" -> "k" [] c = "L" -> "l" [] c = "M" -> "m" [] c = "P" -> "p"
      [] c = "T" -> "t" [] c = "U" -> "u"
      [] OTHER -> c

Lower(cs) == [k \in 1..Len(cs) |-> LowerChar(cs[k])]

\* {"$regex": pattern, "$options": "i"} for a pattern of plain characters:
\* the pattern occurs somewhere in the value, whatever the case.
RegexSearchI(pattern, value) ==
    LET pat == Lower(Chars(pattern))
        val == Lower(Chars(value))
    IN  \E k \in 0..(Len(val) - Len(pat)) :
            SubSeq(val, k + 1, k + Len(pat)) = pat

\* Lines 399-406.  A sport_id of 0 and an empty string stand for None:
\* the tests "if sport_id:", "if player_name:", "if stat_type:" skip both.
Matches(doc, query) ==
    /\ query.sport_id # 0 => doc.sport_id = query.sport_id
    /\ query.player_name # "" => RegexSearchI(query.player_name, doc.player_name)
    /\ query.stat_type # "" => doc.stat_type = query.stat_type

FindQuery(coll, query) == SelectSeq(coll, LAMBDA d : Matches(d, query))

\* cursor.skip(n) and cursor.limit(n), n >= 1.
Skip(docs, n) == SubSeq(docs, n + 1, Len(docs))
Limit(docs, n) == SubSeq(docs, 1, Min(n, Len(docs)))

\* Lines 431-435: Projection(**doc) accepts the document.  stat_type is a
\* str in models.py; "null" stands for a stat_type stored as None.
Valid(doc) == doc.stat_type # "null"

\* Mutant: the number of pages is rounded down.
TotalPagesFloor(total_count, page_size) == total_count \div page_size

\* Line 440.
TotalPages(total_count, page_size) ==
    (total_count + page_size - 1) \div page_size

\* get_projections (lines 375-461); page 0 and page_size 0 stand for None.
GetProjections(coll, query, page, page_size) ==
    LET total_count == Len(FindQuery(coll, query))
        use_pagination == page # 0 /\ page_size # 0
        projection_docs ==
            IF use_pagination
            THEN Limit(Skip(FindQuery(coll, query), (page - 1) * page_size),
                       page_size)
            ELSE FindQuery(coll, query)
        items == SelectSeq(projection_docs, Valid)
    IN  IF use_pagination
        THEN [items |-> items, paginated |-> TRUE, total_count |-> total_count,
              total_pages |-> TotalPages(total_count, page_size),
              has_next |-> page < TotalPages(total_count, page_size),
              has_prev |-> page > 1]
        ELSE [items |-> items, paginated |-> FALSE, total_count |-> total_count]

EmptyStore == [projections |-> <<>>, players |-> <<>>, games |-> <<>>]

\* ------------------------------ refresh passes, one after the other
\* update_one({"id": doc.id}, {"$set": doc}, upsert=True): the stored
\* document with this id takes every field of doc, or doc is inserted.
UpdateOneUpsert(coll, doc) ==
    IF IndexOf(coll, doc.id) = 0
    THEN Append(coll, doc)
    ELSE [coll EXCEPT ![IndexOf(coll, doc.id)] = doc]

\* Lines 595-600 and 605-610: one upsert for each document of the dict.
RECURSIVE UpsertAll(_, _, _)
UpsertAll(coll, docs, k) ==
    IF k > Len(docs) THEN coll
    ELSE UpsertAll(UpdateOneUpsert(coll, docs[k]), docs, k + 1)

\* Lines 586-590: delete_many for the sport asked for, then insert_many.
Replace(coll, s, docs) ==
    IF docs # <<>> THEN DeleteMany(coll, s) \o docs ELSE coll

\* What the upstream fetch of line 484 gives a pass: it raises, or it
\* returns a document without "data" or "included", or one with them.
Fetched(records, n) ==
    {[kind |-> "raises", data |-> <<>>], [kind |-> "invalid", data |-> <<>>]}
        \cup {[kind |-> "document", data |-> d] : d \in Batches(records, n)}

\* How the pass on this fetch ends and what it normalized.
PassOf(fetch) ==
    CASE fetch.kind = "raises" -> [EmptyPass EXCEPT !.outcome = "UpstreamError"]
      [] fetch.kind = "invalid" -> [EmptyPass EXCEPT !.outcome = "invalid"]
      [] OTHER -> NormalizeBatch(fetch.data)

\* Mutant: the old projections of the sport are deleted before the fetch.
StoredDeleteFirst(store, s, fetch) ==
    LET pass == PassOf(fetch)
    IN  IF pass.outcome # "ok"
        THEN [store EXCEPT !.projections = DeleteMany(@, s)]
        ELSE [projections |-> DeleteMany(store.projections, s) \o pass.projection_docs,
              players |-> UpsertAll(store.players, pass.player_docs, 1),
              games |-> UpsertAll(store.games, pass.game_docs, 1)]

\* The three collections after _refresh_projections_from_api(s): a fetch
\* that raises (484), a return at line 488 and an exception out of the loop
\* all come before the first write of line 588.
Stored(store, s, fetch) ==
    LET pass == PassOf(fetch)
    IN  IF pass.outcome # "ok"
        THEN store
        ELSE [projections |-> Replace(store.projections, s, pass.projection_docs),
              players |-> UpsertAll(store.players, pass.player_docs, 1),
              games |-> UpsertAll(store.games, pass.game_docs, 1)]

Store == [projections |-> projections, players |-> players, games |-> games]

\* The primary records of these passes: the well-formed records of a
\* game, and one record that makes the loop raise TypeError.
RefreshRecords ==
    [player : PlayerIds, league : {1}, game : GameIds, resolved : {TRUE},
     stat_type : {"Points"}, defect : {"none"}]
        \cup [player : {1}, league : {1}, game : {1}, resolved : {TRUE},
              stat_type : {"Points"}, defect : {"null_relationship"}]

\* The store as an earlier refresh of sport 1 on an empty store left it;
\* the attempt the claims speak of has not begun.
RefreshInit ==
    /\ now = 0
    /\ rate_limiter = RateLimiterInit(0)
    /\ acquired = 0
    /\ request_queue = <<>>
    /\ queue_lock = 0
    /\ thr = <<>>
    /\ sent = <<>>
    /\ upstream = "ok"
    /\ faults = 0
    /\ callers = {}
    /\ quota = 0
    /\ ServiceUnused
    /\ rf = <<>>
    /\ rd = <<>>
    /\ refreshes = 1
    /\ response \in {f \in Fetched(RefreshRecords, MaxRecs) : f.kind = "document"}
    /\ norm = <<>>
    /\ prior = <<>>
    /\ projections = Stored(EmptyStore, 1, response).projections
    /\ players = Stored(EmptyStore, 1, response).players
    /\ games = Stored(EmptyStore, 1, response).games
    /\ out = <<>>

\* One whole call of _refresh_projections_from_api(s) on this fetch; prior
\* keeps the collections as the call found them.
Refresh(s, fetch) ==
    /\ norm = <<>>
    /\ refreshes' = refreshes + 1
    /\ response' = fetch
    /\ norm' = [PassOf(fetch) EXCEPT !.projection_docs = <<>>]
    /\ prior' = Store
    /\ projections' = Stored(Store, s, fetch).projections
    /\ players' = Stored(Store, s, fetch).players
    /\ games' = Stored(Store, s, fetch).games
    /\ UNCHANGED <<now, rate_limiter, acquired, transportVars, serviceVars,
                   rf, rd, out>>

RefreshRaises(s) ==
    \E f \in Fetched(RefreshRecords, MaxRecs) : f.kind = "raises" /\ Refresh(s, f)

RefreshInvalid(s) ==
    \E f \in Fetched(RefreshRecords, MaxRecs) : f.kind = "invalid" /\ Refresh(s, f)

RefreshDocument(s) ==
    \E f \in Fetched(RefreshRecords, MaxRecs) : f.kind = "document" /\ Refresh(s, f)

RefreshNext ==
    \/ \E s \in Sports : RefreshRaises(s)
    \/ \E s \in Sports : RefreshInvalid(s)
    \/ \E s \in Sports : RefreshDocument(s)

SpecRefresh == RefreshInit /\ [][RefreshNext]_vars

\* ------------------------------------------------ paginated reads
\* The records of the store these reads run on.
PlainRecords ==
    [player : {1}, league : Sports, game : {0}, resolved : {TRUE},
     stat_type : {"Points"}, defect : {"none"}]

\* The store after one refresh pass of sport 1 on an empty store.
PagingInit ==
    /\ now = 0
    /\ rate_limiter = RateLimiterInit(0)
    /\ acquired = 0
    /\ request_queue = <<>>
    /\ queue_lock = 0
    /\ thr = <<>>
    /\ sent = <<>>
    /\ upstream = "ok"
    /\ faults = 0
    /\ callers = {}
    /\ quota = 0
    /\ ServiceUnused
    /\ rf = <<>>
    /\ rd = <<>>
    /\ refreshes = 1
    /\ response \in {f \in Fetched(PlainRecords, MaxStored) : f.kind = "document"}
    /\ norm = NormalizeBatch(response.data)
    /\ prior = EmptyStore
    /\ projections = Stored(EmptyStore, 1, response).projections
    /\ players = Stored(EmptyStore, 1, response).players
    /\ games = Stored(EmptyStore, 1, response).games
    /\ out = <<>>

\* get_projections(sport_id=s, page=page, page_size=page_size).
ReadPage(s, page, page_size) ==
    /\ out' = [query |-> [sport_id |-> s, player_name |-> "", stat_type |-> ""],
               page |-> page, page_size |-> page_size,
               result |-> GetProjections(projections,
                             [sport_id |-> s, player_name |-> "", stat_type |-> ""],
                             page, page_size)]
    /\ UNCHANGED <<now, rate_limiter, acquired, transportVars, serviceVars,
                   storeVars, players, games, response, norm, prior>>

PagingNext ==
    \E s \in Sports, page \in 1..MaxPage, page_size \in 1..MaxPageSize :
        ReadPage(s, page, page_size)

SpecPaging == PagingInit /\ [][PagingNext]_vars

\* ------------------------------------- reads of a store, in sequence
\* Lines 370-372: the first 10 of a list.
FirstTen(items) == SubSeq(items, 1, Min(SampleSize, Len(items)))

\* get_players(sport_id) and get_games(sport_id), lines 643-649, 700-706.
FindSport(coll, s) == IF s # 0 THEN Find(coll, s) ELSE coll

\* get_sport_data(s) for a sport that get_sports() lists (lines 356-373).
\* len([projections['items']]) is the length of a list of one element.
GetSportData(store, s) ==
    LET projections_read ==
            GetProjections(store.projections,
                [sport_id |-> s, player_name |-> "", stat_type |-> ""], 0, 0)
        games_read == FindSport(store.games, s)
        players_read == FindSport(store.players, s)
    IN  [projections_count |-> Len(<<projections_read.items>>),
         games_count |-> Len(games_read),
         players_count |-> Len(players_read),
         projections |-> FirstTen(projections_read.items),
         games |-> FirstTen(games_read),
         players |-> FirstTen(players_read)]

\* The primary records of the store these reads run on; "null" is a
\* stat_type the upstream sent as null, which line 528 keeps as None.
ReadRecords ==
    [player : {1, 2, 3}, league : {1}, game : {1}, resolved : {TRUE},
     stat_type : {"Points", "points", "3-PT Made", "null"}, defect : {"none"}]

Queries ==
    [sport_id : {0, 1}, player_name : {"", "james"}, stat_type : {"", "Points"}]

ReadInit ==
    /\ now = 0
    /\ rate_limiter = RateLimiterInit(0)
    /\ acquired = 0
    /\ request_queue = <<>>
    /\ queue_lock = 0
    /\ thr = <<>>
    /\ sent = <<>>
    /\ upstream = "ok"
    /\ faults = 0
    /\ callers = {}
    /\ quota = 0
    /\ ServiceUnused
    /\ StoreUnused
    /\ players = <<>>
    /\ games = <<>>
    /\ response = <<>>
    /\ norm = <<>>
    /\ prior = <<>>
    /\ out = <<>>

\* The first refresh of sport 1: refresh_all_data(sport_id=1).  out is the
\* last read of the store as it is, so the refresh forgets it.
ReadSeed ==
    /\ refreshes = 0
    /\ refreshes' = refreshes + 1
    /\ \E f \in Fetched(ReadRecords, MaxBatch) :
          /\ f.kind = "document"
          /\ response' = f
          /\ norm' = [PassOf(f) EXCEPT !.projection_docs = <<>>]
          /\ projections' = Stored(Store, 1, f).projections
          /\ players' = Stored(Store, 1, f).players
          /\ games' = Stored(Store, 1, f).games
    /\ prior' = Store
    /\ out' = <<>>
    /\ UNCHANGED <<now, rate_limiter, acquired, transportVars, serviceVars,
                   rf, rd>>

\* What no read changes: get_projections writes neither the store nor a
\* refresh time, and calls neither the upstream nor a refresh.
ReadFrame ==
    UNCHANGED <<now, rate_limiter, acquired, transportVars, serviceVars,
                storeVars, players, games, response, norm, prior>>

\* get_projections(sport_id, player_name, stat_type, page, page_size) with
\* at least one of page and page_size absent.
ReadProjections(query, page, page_size) ==
    /\ out' = [kind |-> "get_projections", query |-> query, page |-> page,
               page_size |-> page_size,
               result |-> GetProjections(projections, query, page, page_size)]
    /\ ReadFrame

\* get_sport_data(s).
ReadSportData(s) ==
    /\ out' = [kind |-> "get_sport_data", query |-> [sport_id |-> s],
               page |-> 0, page_size |-> 0, result |-> GetSportData(Store, s)]
    /\ ReadFrame

ReadNext ==
    \/ ReadSeed
    \/ \E q \in Queries, page \in {0, 1}, page_size \in {0, 1} :
          (page = 0 \/ page_size = 0) /\ ReadProjections(q, page, page_size)
    \/ \E s \in Sports : ReadSportData(s)

SpecRead == ReadInit /\ [][ReadNext]_vars

\* ------------------------------- generations of one sport's projections
\* Lines 504, 538 and 558: a projection document carries the league its own
\* record names and the time.time() of the pass that built it.
RECURSIVE NormalizeAt(_, _, _)
NormalizeAt(data, i, current_time) ==
    IF i > Len(data) THEN <<>>
    ELSE IF data[i].defect = "none"
    THEN <<[id |-> i, sport_id |-> data[i].league,
            last_updated |-> current_time]>>
         \o NormalizeAt(data, i + 1, current_time)
    ELSE NormalizeAt(data, i + 1, current_time)

\* Lines 586-590: the projections after the pass asked for sport s.
Replaced(coll, s, docs) ==
    IF docs # <<>> THEN DeleteMany(coll, s) \o docs ELSE coll

ReplaceInit ==
    /\ now = 0
    /\ rate_limiter = RateLimiterInit(0)
    /\ acquired = 0
    /\ request_queue = <<>>
    /\ queue_lock = 0
    /\ thr = <<>>
    /\ sent = <<>>
    /\ upstream = "ok"
    /\ faults = 0
    /\ callers = {}
    /\ quota = 0
    /\ ServiceUnused
    /\ StoreUnused
    /\ CatalogUnused

\* What a pass over the projections leaves alone.
ReplaceFrame ==
    UNCHANGED <<rate_limiter, acquired, transportVars, serviceVars, rf, rd,
                players, games, response, norm, prior>>

\* One whole call of _refresh_projections_from_api(s), one after the other;
\* a call takes time.  out logs the sport each call asked for, its
\* time.time() and the number of documents it built.
ReplacePass(s, docs) ==
    /\ refreshes < MaxRefreshes
    /\ refreshes' = refreshes + 1
    /\ now' = now + 1
    /\ projections' = Replaced(projections, s, docs)
    /\ out' = Append(out, [sport |-> s, current_time |-> now,
                           normalized |-> Len(docs)])
    /\ ReplaceFrame

\* Line 484 raises, or lines 486-488 find no "data" or no "included".
ReplaceNothing(s) == ReplacePass(s, <<>>)

\* Lines 484-611 on a document.
ReplaceDocument(s) ==
    \E data \in Responses : ReplacePass(s, NormalizeAt(data, 1, now))

ReplaceNext ==
    \/ \E s \in Sports : ReplaceNothing(s)
    \/ \E s \in Sports : ReplaceDocument(s)

SpecReplace == ReplaceInit /\ [][ReplaceNext]_vars

\* --------------------------------------------- get_sports and its cache
LeagueIds == 1..NLeagues

\* A Sport as get_sports parses it (lines 322-327), as far as the scraper
\* reads it.
SportRecs == [id : LeagueIds, active : BOOLEAN]

\* The lists of sports the "leagues" endpoint can answer with, none longer
\* than n: a league is listed once.
Listings(n) ==
    UNION {{l \in [1..k -> SportRecs] :
               \A i, j \in 1..k : i # j => l[i].id # l[j].id} : k \in 0..n}

\* What _make_request("leagues") gives (line 316): it raises (lines 295-301)
\* or it returns a document, of which sports is the parsed list.
LeagueAnswers(n) ==
    {[raises |-> TRUE, sports |-> <<>>]}
    \cup {[raises |-> FALSE, sports |-> l] : l \in Listings(n)}

\* A scraper after __init__: lines 94-95 declare _sports_cache = None and
\* _sports_cache_time = 0 on the class, and the instance has no attribute
\* of its own till get_sports assigns one through self (lines 333-334).
NewInstance == [own |-> FALSE, sports_cache |-> <<>>, sports_cache_time |-> 0]

\* Mutant: a cache entry is still served when it is exactly CACHE_EXPIRY old.
FreshInclusive(inst, current_time) ==
    /\ inst.own
    /\ inst.sports_cache # <<>>
    /\ current_time - inst.sports_cache_time <= Secs(CACHE_EXPIRY)

\* Line 312: self._sports_cache is the instance's attribute when it has
\* one and the class's None otherwise; None and [] are both falsy.
Fresh(inst, current_time) ==
    /\ inst.own
    /\ inst.sports_cache # <<>>
    /\ current_time - inst.sports_cache_time < Secs(CACHE_EXPIRY)

\* Lines 303-336: get_sports() on inst, called at current_time, when the
\* upstream would give answer.
GetSports(inst, current_time, answer) ==
    IF Fresh(inst, current_time)
    THEN [inst |-> inst, requested |-> FALSE, raised |-> FALSE,
          sports |-> inst.sports_cache]
    ELSE IF answer.raises
    THEN [inst |-> inst, requested |-> TRUE, raised |-> TRUE, sports |-> <<>>]
    ELSE [inst |-> [own |-> TRUE, sports_cache |-> answer.sports,
                    sports_cache_time |-> current_time],
          requested |-> TRUE, raised |-> FALSE, sports |-> answer.sports]

\* scraper.py lines 295-301 and 353-354, main.py lines 62-65: what the
\* caller of get_sport_data is given.
SportDataOutcome(cause) ==
    CASE cause = "fetch_failed" ->
            [exc |-> "Exception", status |-> 500,
             detail |-> "Failed to fetch data from PrizePicks API"]
      [] cause = "unknown_sport" ->
            [exc |-> "Exception", status |-> 500,
             detail |-> "Sport with ID not found"]
      [] OTHER -> [exc |-> "none", status |-> 200, detail |-> ""]

\* main.py lines 44-52: what the caller of get_sports is given.
SportsOutcome(cause) ==
    IF cause = "fetch_failed"
    THEN [exc |-> "Exception", status |-> 500,
          detail |-> "Failed to fetch data from PrizePicks API"]
    ELSE [exc |-> "none", status |-> 200, detail |-> ""]

\* Time passes in thirds of the cache's lifetime here.
Quantum == Secs(CACHE_EXPIRY) \div 3

NoCall ==
    [fn |-> "none", k |-> 0, sport_id |-> 0, at |-> 0, before |-> NewInstance,
     shared |-> FALSE, requested |-> FALSE, raised |-> FALSE, sports |-> <<>>,
     cause |-> "none", outcome |-> SportsOutcome("none")]

\* The state after construction of n scrapers.
CacheInit(n) ==
    /\ now = 0
    /\ rate_limiter = RateLimiterInit(0)
    /\ acquired = 0
    /\ request_queue = <<>>
    /\ queue_lock = 0
    /\ thr = <<>>
    /\ sent = <<>>
    /\ upstream = "ok"
    /\ faults = 0
    /\ callers = {}
    /\ quota = 0
    /\ scrapers = [k \in 1..n |-> NewInstance]
    /\ req = <<>>
    /\ StoreUnused
    /\ players = <<>>
    /\ games = <<>>
    /\ response = <<>>
    /\ norm = <<>>
    /\ prior = <<>>
    /\ out = NoCall

\* What a call on the sports cache leaves alone.
CacheFrame ==
    UNCHANGED <<rate_limiter, acquired, transportVars, req, storeVars,
                players, games, response, norm, prior>>

\* One call on scraper k that starts with get_sports(); a request to the
\* upstream takes d.  out keeps the call: the instance as the call found
\* it, whether another instance held a fresh list, and what came of it.
CacheCall(k, fn, s, answer, d) ==
    LET g == GetSports(scrapers[k], now, answer)
        cause == IF g.raised THEN "fetch_failed"
                 ELSE IF fn = "get_sport_data"
                         /\ \A i \in 1..Len(g.sports) : g.sports[i].id # s
                 THEN "unknown_sport"
                 ELSE "none"
        took == IF g.requested THEN d ELSE 0
    IN  /\ now + took <= MaxQuanta * Quantum
        /\ now' = now + took
        /\ scrapers' = [scrapers EXCEPT ![k] = g.inst]
        /\ out' = [fn |-> fn, k |-> k, sport_id |-> s, at |-> now,
                   before |-> scrapers[k],
                   shared |-> \E j \in DOMAIN scrapers :
                                 j # k /\ Fresh(scrapers[j], now),
                   requested |-> g.requested, raised |-> g.raised,
                   sports |-> g.sports, cause |-> cause,
                   outcome |-> IF fn = "get_sport_data"
                               THEN SportDataOutcome(cause)
                               ELSE SportsOutcome(cause)]
        /\ CacheFrame

\* The answers drawn for the calls on the cache, which does not read a
\* sport's active flag.
CachedAnswers ==
    {a \in LeagueAnswers(MaxCached) :
        \A i \in 1..Len(a.sports) : a.sports[i].active}

\* GET /api/sports, main.py lines 44-52.
CallGetSports(k) ==
    \E answer \in CachedAnswers, d \in {0, Quantum} :
       CacheCall(k, "get_sports", 0, answer, d)

\* GET /api/sports/{sport_id}, main.py lines 54-65, as far as lines 350-354
\* of get_sport_data.
CallGetSportData(k) ==
    \E s \in LeagueIds, answer \in CachedAnswers, d \in {0, Quantum} :
       CacheCall(k, "get_sport_data", s, answer, d)

CacheElapse ==
    /\ now + Quantum <= MaxQuanta * Quantum
    /\ now' = now + Quantum
    /\ UNCHANGED <<scrapers, out>>
    /\ CacheFrame

CacheNext ==
    \/ CacheElapse
    \/ \E k \in DOMAIN scrapers : CallGetSports(k)
    \/ \E k \in DOMAIN scrapers : CallGetSportData(k)

\* One scraper.
SpecSports == CacheInit(1) /\ [][CacheNext]_vars

\* The scrapers of several requests (main.py lines 27-32).
SpecShared == CacheInit(NInstances) /\ [][CacheNext]_vars

\* ------------------------------ refresh_all_data and the scheduled job
\* Mutant: every listed sport is refreshed.
DueAlways(sport) == TRUE

\* Line 627.
Due(sport) == sport.active

\* Line 631: time.sleep(random.uniform(1.0, 2.0)).
Delays == {Secs(DelayMinSec), Secs(DelayMaxSec)}

\* Line 613: refresh_all_data returns None.
RefreshAllDataReturns == "None"

\* scheduler.py line 19: await on a value that is no awaitable raises
\* TypeError.
Awaitable(value) == value # "None"

NoRun ==
    [fn |-> "none", pc |-> "idle", sports |-> <<>>, i |-> 0,
     refreshed |-> <<>>, invoked |-> <<>>, error |-> "none"]

RefreshAllInit ==
    /\ now = 0
    /\ rate_limiter = RateLimiterInit(0)
    /\ acquired = 0
    /\ request_queue = <<>>
    /\ queue_lock = 0
    /\ thr = <<>>
    /\ sent = <<>>
    /\ upstream = "ok"
    /\ faults = 0
    /\ callers = {}
    /\ quota = 0
    /\ scrapers = <<NewInstance>>
    /\ req = <<>>
    /\ StoreUnused
    /\ players = <<>>
    /\ games = <<>>
    /\ response = <<>>
    /\ norm = <<>>
    /\ prior = <<>>
    /\ out = NoRun

\* Lines 624-625 of refresh_all_data() and lines 15-16 of the scheduled
\* job: the list of sports, or the exception of the fetch.
RunStart(fn, answer) ==
    LET g == GetSports(scrapers[1], now, answer)
    IN  /\ out.pc = "idle"
        /\ scrapers' = <<g.inst>>
        /\ out' = IF g.raised
                  THEN [NoRun EXCEPT !.fn = fn, !.pc = "done",
                                     !.error = "Exception"]
                  ELSE [NoRun EXCEPT !.fn = fn, !.pc = "loop",
                                     !.sports = g.sports, !.i = 1]
        /\ UNCHANGED now
        /\ CacheFrame

\* refresh_all_data() with no sport, lines 620-625.
RefreshAllData ==
    \E answer \in LeagueAnswers(MaxListed) :
       RunStart("refresh_all_data", answer)

\* Lines 626-627 on a sport that is not active.
LoopSkip ==
    /\ out.fn = "refresh_all_data"
    /\ out.pc = "loop"
    /\ out.i <= Len(out.sports)
    /\ ~Due(out.sports[out.i])
    /\ out' = [out EXCEPT !.i = @ + 1]
    /\ UNCHANGED <<now, scrapers>>
    /\ CacheFrame

\* Lines 626-631 on an active sport: its refresh, which takes e, and the
\* sleep of d after it.
LoopRefresh ==
    /\ out.fn = "refresh_all_data"
    /\ out.pc = "loop"
    /\ out.i <= Len(out.sports)
    /\ Due(out.sports[out.i])
    /\ \E e \in 0..1, d \in Delays :
          /\ now' = now + e + d
          /\ out' = [out EXCEPT
                        !.i = @ + 1,
                        !.refreshed = Append(@, [sport |-> out.sports[out.i].id,
                                                 at |-> now,
                                                 slept |-> now + e,
                                                 woke |-> now + e + d])]
    /\ UNCHANGED scrapers
    /\ CacheFrame

\* Line 629 raises (line 484): the exception leaves refresh_all_data.
LoopRefreshRaises ==
    /\ out.fn = "refresh_all_data"
    /\ out.pc = "loop"
    /\ out.i <= Len(out.sports)
    /\ Due(out.sports[out.i])
    /\ out' = [out EXCEPT !.pc = "done", !.error = "Exception"]
    /\ UNCHANGED <<now, scrapers>>
    /\ CacheFrame

\* The list is exhausted: the call, or the job, returns.
LoopEnd ==
    /\ out.pc = "loop"
    /\ out.i > Len(out.sports)
    /\ out' = [out EXCEPT !.pc = "done"]
    /\ UNCHANGED <<now, scrapers>>
    /\ CacheFrame

\* DataRefreshScheduler.refresh_all_sports, scheduler.py lines 13-16.
RefreshAllSports ==
    \E answer \in LeagueAnswers(MaxListed) :
       RunStart("refresh_all_sports", answer)

\* scheduler.py lines 17-22 on the next sport: refresh_all_data(sport_id)
\* runs lines 620-622 of scraper.py, and the job awaits what it returned;
\* the except clause ends the job on any exception.
JobStep ==
    /\ out.fn = "refresh_all_sports"
    /\ out.pc = "loop"
    /\ out.i <= Len(out.sports)
    /\ \E e \in 0..1, raises \in BOOLEAN :
          /\ now' = now + e
          /\ out' = [out EXCEPT
                        !.invoked = Append(@, out.sports[out.i].id),
                        !.refreshed =
                            IF raises THEN @
                            ELSE Append(@, [sport |-> out.sports[out.i].id,
                                            at |-> now, slept |-> now + e,
                                            woke |-> now + e]),
                        !.i = IF ~raises /\ Awaitable(RefreshAllDataReturns)
                              THEN @ + 1 ELSE @,
                        !.pc = IF ~raises /\ Awaitable(RefreshAllDataReturns)
                               THEN "loop" ELSE "done",
                        !.error = IF raises THEN "Exception"
                                  ELSE IF Awaitable(RefreshAllDataReturns)
                                  THEN "none" ELSE "TypeError"]
    /\ UNCHANGED scrapers
    /\ CacheFrame

RefreshAllNext ==
    \/ RefreshAllData
    \/ LoopSkip
    \/ LoopRefresh
    \/ LoopRefreshRaises
    \/ LoopEnd
    \/ RefreshAllSports
    \/ JobStep

SpecRefreshAll == RefreshAllInit /\ [][RefreshAllNext]_vars

\* ------------------------------------ acquire() and what it returned
NoAcquire == [called |-> FALSE, at |-> 0, before |-> RateLimiterInit(0), wait |-> 0]

LimiterInit ==
    /\ now = 0
    /\ rate_limiter = RateLimiterInit(0)
    /\ acquired = 0
    /\ request_queue = <<>>
    /\ queue_lock = 0
    /\ thr = <<>>
    /\ sent = <<>>
    /\ upstream = "ok"
    /\ faults = 0
    /\ callers = {}
    /\ quota = 0
    /\ ServiceUnused
    /\ StoreUnused
    /\ players = <<>>
    /\ games = <<>>
    /\ response = <<>>
    /\ norm = <<>>
    /\ prior = <<>>
    /\ out = NoAcquire

LimiterTick ==
    /\ now < MaxNow
    /\ now' = now + 1
    /\ UNCHANGED <<rate_limiter, acquired, out>>
    /\ UNCHANGED <<transportVars, serviceVars, storeVars, players, games,
                   response, norm, prior>>

\* Lines 41-55: one call of acquire(); out keeps the bucket as the call
\* found it, the time of the call and the wait it returned.
LimiterAcquire ==
    /\ LET a == Acquire(rate_limiter, now)
       IN  /\ rate_limiter' = a.lim
           /\ acquired' = IF a.wait = 0 THEN acquired + 1 ELSE acquired
           /\ out' = [called |-> TRUE, at |-> now, before |-> rate_limiter,
                      wait |-> a.wait]
    /\ UNCHANGED now
    /\ UNCHANGED <<transportVars, serviceVars, storeVars, players, games,
                   response, norm, prior>>

LimiterNext == LimiterTick \/ LimiterAcquire

SpecLimiter == LimiterInit /\ [][LimiterNext]_vars

\* ------------------------------------- the reads of the collections
\* Mutant: find hands out the stored documents themselves.
AliasedAlways == TRUE

\* list(collection.find(query)), lines 649 and 706: the driver builds
\* dicts of the caller's own from the server's answer, so what a read
\* does to them (lines 655-660, 712-713) does not reach the collection.
Aliased == FALSE

\* Lines 658-660: a player document with the projections that
\* get_projections(player_name=doc["name"]) finds.
Embedded(store, doc) ==
    [id |-> doc.id, name |-> doc.name, sport_id |-> doc.sport_id,
     sport_name |-> doc.sport_name,
     projections |->
         GetProjections(store.projections,
             [sport_id |-> 0, player_name |-> doc.name, stat_type |-> ""],
             0, 0).items]

\* get_players(s), lines 633-668.
GetPlayers(store, s) ==
    LET docs == FindSport(store.players, s)
    IN  [k \in 1..Len(docs) |-> Embedded(store, docs[k])]

\* The players collection after a call of get_players(s).
PlayersRead(store, s) ==
    IF Aliased
    THEN [k \in 1..Len(store.players) |->
             IF s = 0 \/ store.players[k].sport_id = s
             THEN Embedded(store, store.players[k])
             ELSE store.players[k]]
    ELSE store.players

\* get_player_by_name(name), lines 670-687: the first player whose name
\* holds name, whatever the case, or none.
GetPlayerByName(store, name) ==
    Limit(SelectSeq(GetPlayers(store, 0),
                    LAMBDA player : RegexSearchI(name, player.name)), 1)

\* get_game_by_id(id), lines 725-741, on get_games() (lines 689-723).
GetGameById(store, id) ==
    Limit(SelectSeq(FindSport(store.games, 0), LAMBDA game : game.id = id), 1)

\* The primary records of the store these reads run on: two players, the
\* name of the one a part of the name of the other.
CatalogRecords ==
    [player : {1, 4}, league : {1}, game : {1}, resolved : {TRUE},
     stat_type : {"Points"}, defect : {"none"}]

CatalogInit ==
    /\ now = 0
    /\ rate_limiter = RateLimiterInit(0)
    /\ acquired = 0
    /\ request_queue = <<>>
    /\ queue_lock = 0
    /\ thr = <<>>
    /\ sent = <<>>
    /\ upstream = "ok"
    /\ faults = 0
    /\ callers = {}
    /\ quota = 0
    /\ ServiceUnused
    /\ StoreUnused
    /\ players = <<>>
    /\ games = <<>>
    /\ response = <<>>
    /\ norm = <<>>
    /\ prior = EmptyStore
    /\ out = [kind |-> "none", result |-> <<>>]

\* refresh_all_data(sport_id=1) on a document; prior keeps the collections
\* as the call found them.
CatalogRefresh ==
    /\ refreshes < MaxRefreshes
    /\ refreshes' = refreshes + 1
    /\ \E f \in Fetched(CatalogRecords, MaxBatch) :
          /\ f.kind = "document"
          /\ projections' = Stored(Store, 1, f).projections
          /\ players' = Stored(Store, 1, f).players
          /\ games' = Stored(Store, 1, f).games
    /\ prior' = Store
    /\ out' = [kind |-> "refresh", result |-> <<>>]
    /\ UNCHANGED <<now, rate_limiter, acquired, transportVars, serviceVars,
                   rf, rd, response, norm>>

\* One read: what it returns, and the players collection after it.  The
\* reads call count_documents and find on the collections and nothing else.
CatalogRead(kind, result, players_after) ==
    /\ prior' = Store
    /\ out' = [kind |-> kind, result |-> result]
    /\ players' = players_after
    /\ UNCHANGED <<now, rate_limiter, acquired, transportVars, serviceVars,
                   storeVars, games, response, norm>>

CatalogProjections ==
    \E q \in Queries :
       CatalogRead("get_projections", GetProjections(projections, q, 0, 0),
                   players)

CatalogPlayers ==
    \E s \in {0} \cup Sports :
       CatalogRead("get_players", GetPlayers(Store, s), PlayersRead(Store, s))

CatalogPlayerByName ==
    \E name \in {"james", "Kevin Durant"} :
       CatalogRead("get_player_by_name", GetPlayerByName(Store, name),
                   PlayersRead(Store, 0))

CatalogGames ==
    \E s \in {0} \cup Sports :
       CatalogRead("get_games", FindSport(games, s), players)

CatalogGameById ==
    \E id \in {1, 2} :
       CatalogRead("get_game_by_id", GetGameById(Store, id), players)

CatalogSportData ==
    \E s \in Sports :
       CatalogRead("get_sport_data", GetSportData(Store, s),
                   PlayersRead(Store, s))

CatalogNext ==
    \/ CatalogRefresh
    \/ CatalogProjections
    \/ CatalogPlayers
    \/ CatalogPlayerByName
    \/ CatalogGames
    \/ CatalogGameById
    \/ CatalogSportData

SpecCatalog == CatalogInit /\ [][CatalogNext]_vars

\* ---------------------------------------------------------- the claims

\* C1: the number of acquire() calls that returned a zero wait by time t
\* after construction never exceeds burst + floor(t * rate).
C1_ZeroWaitBound == acquired <= Burst + (now * Rate) \div TicksPerSec

\* More than the burst has been handed out, after a refill.
C1_Witness == acquired > Burst /\ now > 0

\* C2: on one scraper, the number of requests sent within any interval of
\* length t never exceeds burst + floor(t * rate), for any interleaving of
\* _make_request calls.  (sent is in time order, so the requests from the
\* i-th to the j-th are sent within sent[j].at - sent[i].at.)
C2_RateBound ==
    \A i, j \in 1..Len(sent) :
        i <= j =>
            j - i + 1 <= Burst + ((sent[j].at - sent[i].at) * Rate) \div TicksPerSec

\* The same bound on the interval that starts when the limiter is built,
\* which no spread of the sleep before sending can break.
RateBoundSinceStart == Len(sent) <= Burst + (now * Rate) \div TicksPerSec

\* C3: all callers share one RateLimiter and one request log: the requests
\* made for two different incoming service requests go through the same
\* instance, so the log that one of them sees holds the entry of the other.
C3_SharedLimiter ==
    \A r1, r2 \in Requests :
        (r1 # r2 /\ req[r1].pc = "served" /\ req[r2].pc = "served") =>
            /\ req[r1].scraper = req[r2].scraper
            /\ Len(scrapers[req[r2].scraper].request_queue) >= 2

\* C4: under sustained blocking (every answer is 403) one call to
\* _make_request makes at most a fixed number of attempts (the configured
\* maximum of 5 retries) and then fails.
C4_Bounded403 ==
    upstream = "blocked" =>
        \A t \in callers : thr[t].attempts <= RetryTotal + 1

\* While every answer is 429: the adapter retries, _make_request never
\* sees the 429 itself, and the only way out is the RetryError.
Limited429Safe ==
    upstream = "limited" =>
        \A t \in callers :
            /\ thr[t].attempts <= RetryTotal + 1
            /\ thr[t].depth = 0
            /\ thr[t].pc # "sleep429"
            /\ thr[t].outcome \in {"none", "RetryError"}
            /\ thr[t].outcome = "RetryError" => thr[t].attempts = RetryTotal + 1

\* C5: under sustained rate limiting (every answer is 429) one call to
\* _make_request makes a bounded number of retries (at most 5, so at most 6
\* requests) and then ends with an error; it does not retry for ever.
C5_Bounded429 ==
    /\ []Limited429Safe
    /\ \A t \in Threads :
           (upstream = "limited" /\ thr[t].pc = "acquire")
               ~> (thr[t].pc = "idle" /\ thr[t].outcome = "RetryError")

C5_Witness ==
    /\ upstream = "limited"
    /\ thr[1].outcome = "RetryError"
    /\ thr[1].attempts = RetryTotal + 1

\* While every answer is a 5xx or a connection failure: at most 5 retries,
\* no document, and an error only once the retries are used up.
FailingUpstreamSafe ==
    upstream \in {"down", "unreachable"} =>
        \A t \in callers :
            /\ thr[t].retries <= 5
            /\ thr[t].attempts <= 5 + 1
            /\ thr[t].depth = 0
            /\ thr[t].outcome \in {"none", "RetryError", "RequestException"}
            /\ thr[t].outcome # "none" => thr[t].retries = 5

\* C6: under persistent 5xx answers or connection failures a fetch retries
\* at most 5 times and then raises; it never returns a document, and every
\* call that was started ends with that error.
C6_BoundedRetries ==
    /\ []FailingUpstreamSafe
    /\ \A t \in Threads :
           (upstream \in {"down", "unreachable"} /\ thr[t].pc = "acquire")
               ~> (thr[t].pc = "idle" /\ thr[t].outcome \in {"RetryError", "RequestException"})

C6_Witness ==
    /\ upstream = "down"
    /\ thr[1].pc = "idle"
    /\ thr[1].outcome = "RetryError"
    /\ thr[1].retries = 5

\* C7: every request sent, retries included, has passed the request queue
\* first and RateLimiter.acquire() second since the request before it.
C7_QueueThenLimiter ==
    \A i \in 1..Len(sent) : sent[i].gates = <<"queue", "acquire">>

\* C8: the number of requests sent in any 60-second window never exceeds
\* the ceiling of 10.
C8_WindowBound ==
    \A j \in 1..Len(sent) :
        Cardinality({i \in 1..j : sent[j].at - sent[i].at < Secs(QueueWindowSec)})
            <= QueueCeiling

\* C8, amended: a request that found more than 10 entries in the log when
\* it was logged is held back for at least one second before it is sent.
C8_DelayedWhenFull ==
    \A i \in 1..Len(sent) :
        sent[i].q_len > QueueCeiling => sent[i].at - sent[i].q_at >= Secs(1)

C8_Witness ==
    \E i \in 1..Len(sent) : sent[i].q_len > QueueCeiling

\* C9: a reader that queries a sport while a refresh of that sport is under
\* way never sees a count of zero, if the sport had a projection when the
\* refresh began.
C9_NeverEmptyMidRefresh ==
    /\ (rd.pc \in {"find", "got"} /\ rd.mid_count) => rd.total_count > 0
    /\ (rd.pc = "got" /\ rd.mid_find) => rd.items > 0

\* C10: when a refresh of sport S has completed without error, the number
\* of stored projections of sport S equals the number of records the pass
\* normalized.
C10_CountEqualsNormalized ==
    \A w \in Refreshers :
        (rf[w].pc = "done" /\ rf[w].result = "stored") =>
            rf[w].post = rf[w].normalized

\* Every record of the pass is well formed in what the loop reads.
AllWellFormed == \A i \in 1..Len(response) : Raises(response[i].defect) = "none"

\* C13: N primary records that carry their player and league references
\* give exactly N projection entities, whatever N; a record whose player,
\* league or game is missing from "included" is produced with the player
\* name "Unknown Player" and the sport name "Unknown".
C13_OneEntityPerRecord ==
    (norm # <<>> /\ AllWellFormed) =>
        /\ norm.outcome = "ok"
        /\ Len(norm.projection_docs) = Len(response)
        /\ \A i \in 1..Len(response) :
              /\ norm.projection_docs[i].id = i
              /\ norm.projection_docs[i].player_id = response[i].player
              /\ ~response[i].resolved =>
                    /\ norm.projection_docs[i].player_name = "Unknown Player"
                    /\ norm.projection_docs[i].sport_name = "Unknown"

\* A full batch, one of its records unresolved, has been normalized.
C13_Witness ==
    /\ norm # <<>>
    /\ AllWellFormed
    /\ Len(response) = MaxBatch
    /\ Len(norm.projection_docs) = MaxBatch
    /\ \E i \in 1..Len(response) : ~response[i].resolved
    /\ \E i \in 1..Len(response) : response[i].resolved

\* C14: a malformed record never aborts the batch: for every kind of
\* defect the record alone is skipped and every well-formed record of the
\* response is still normalized.
C14_DefectSkipsOnlyItself ==
    norm # <<>> =>
        /\ norm.outcome = "ok"
        /\ Len(norm.projection_docs) =
              Cardinality({i \in 1..Len(response) :
                              Raises(response[i].defect) = "none"})

\* The players and the games the records of the pass refer to.
PlayersOfPass == {response[i].player : i \in 1..Len(response)}
GamesOfPass == {response[i].game : i \in 1..Len(response)} \ {0}
PlayersOfGame(g) ==
    {response[i].player : i \in {k \in 1..Len(response) : response[k].game = g}}

\* C16: over well-formed records one pass gives as many player entities as
\* there are distinct player ids, as many game entities as distinct non-null
\* game ids, and each game's participant list holds exactly the distinct
\* players of the records that name the game, each once.
C16_DerivedCounts ==
    (norm # <<>> /\ AllWellFormed) =>
        /\ Len(norm.player_docs) = Cardinality(PlayersOfPass)
        /\ {d.id : d \in Elems(norm.player_docs)} = PlayersOfPass
        /\ Len(norm.game_docs) = Cardinality(GamesOfPass)
        /\ {d.id : d \in Elems(norm.game_docs)} = GamesOfPass
        /\ \A k \in 1..Len(norm.game_docs) :
              /\ Elems(norm.game_docs[k].players) =
                    PlayersOfGame(norm.game_docs[k].id)
              /\ Len(norm.game_docs[k].players) =
                    Cardinality(PlayersOfGame(norm.game_docs[k].id))

\* Three records over two players in one game: three projections, two
\* players, one game with two participants.
C16_Witness ==
    /\ norm # <<>>
    /\ AllWellFormed
    /\ Len(response) = 3
    /\ \A i \in 1..Len(response) : response[i].game = 1
    /\ response[1].player = response[2].player
    /\ response[3].player # response[1].player
    /\ Len(norm.projection_docs) = 3
    /\ Len(norm.player_docs) = 2
    /\ Len(norm.game_docs) = 1
    /\ Len(norm.game_docs[1].players) = 2

\* C11: a refresh attempt that fails, because the fetch raises or because
\* the response lacks "data" or "included", leaves the stored projections,
\* players and games exactly as they were before the attempt.
C11_FailedRefreshKeepsStore ==
    (norm # <<>> /\ norm.outcome \in {"UpstreamError", "invalid"}) =>
        Store = prior

\* A failed attempt has followed a pass that stored a generation.
C11_Witness ==
    /\ norm # <<>>
    /\ norm.outcome \in {"UpstreamError", "invalid"}
    /\ projections # <<>>
    /\ players # <<>>
    /\ games # <<>>

\* C15: when a pass upserts a game that is already stored, the stored
\* participant list afterwards holds every player id stored for the game
\* before the pass together with the player ids of the pass.
C15_ParticipantsMerged ==
    (norm # <<>> /\ norm.outcome = "ok") =>
        \A k \in 1..Len(norm.game_docs) :
            LET g == norm.game_docs[k].id
            IN  IndexOf(prior.games, g) # 0 =>
                    Elems(games[IndexOf(games, g)].players) =
                        Elems(prior.games[IndexOf(prior.games, g)].players)
                            \cup Elems(norm.game_docs[k].players)

\* The stored projections of the sport the read asks for, and where the
\* page of the read begins.
Matching == SelectSeq(projections, LAMBDA d : d.sport_id = out.query.sport_id)
Offset == (out.page - 1) * out.page_size

\* C17: for a paginated read with page >= 1 and pageSize >= 1 the slice
\* starts at offset (page-1)*pageSize, totalPages is the ceiling of
\* totalCount/pageSize, hasPrev holds exactly when page > 1 and hasNext
\* exactly when offset + pageSize < totalCount, also for totalCount 0 and
\* for a page beyond totalPages.
C17_Pagination ==
    (out # <<>> /\ out.page >= 1 /\ out.page_size >= 1) =>
        /\ out.result.paginated
        /\ out.result.total_count = Len(Matching)
        /\ out.result.items =
              SubSeq(Matching, Offset + 1, Min(Offset + out.page_size, Len(Matching)))
        /\ out.result.total_pages * out.page_size >= out.result.total_count
        /\ (out.result.total_pages - 1) * out.page_size < out.result.total_count
        /\ out.result.has_prev <=> out.page > 1
        /\ out.result.has_next <=> Offset + out.page_size < out.result.total_count

\* A last page that is not full, with pages before it.
C17_Witness ==
    /\ out # <<>>
    /\ out.page > 1
    /\ out.page = out.result.total_pages
    /\ Len(out.result.items) > 0
    /\ Len(out.result.items) < out.page_size
    /\ ~out.result.has_next

\* A page beyond the last one, and a read of a sport with nothing stored.
C17_WitnessBeyond ==
    /\ out # <<>>
    /\ out.result.total_count > 0
    /\ out.page > out.result.total_pages
    /\ out.result.items = <<>>

\* C12: a projections read for a sport that has never been refreshed (or
\* whose refresh is older than the time-to-live) triggers a refresh of the
\* sport that completes before the read's result is produced.
C12_StaleReadRefreshes ==
    (out # <<>> /\ out.kind = "get_projections" /\ out.query.sport_id # 0) =>
        refreshes > 0

\* The stored projections that match the filters of the read.
MatchingQuery == SelectSeq(projections, LAMBDA d : Matches(d, out.query))

\* C18: a projections read with page or pageSize absent returns every
\* stored record that matches the filters, with a total count equal to the
\* number of items returned.
C18_UnpaginatedFull ==
    (out # <<>> /\ out.kind = "get_projections"
        /\ (out.page = 0 \/ out.page_size = 0)) =>
        /\ ~out.result.paginated
        /\ out.result.items = MatchingQuery
        /\ out.result.total_count = Len(out.result.items)

\* The filters as the claim reads them: the player name contains the
\* filter, and the stat type equals the filter, both whatever the case.
WantedBy(doc, query) ==
    /\ query.player_name # "" => RegexSearchI(query.player_name, doc.player_name)
    /\ query.stat_type # "" =>
          Lower(Chars(doc.stat_type)) = Lower(Chars(query.stat_type))

\* C19: a filtered read returns exactly the stored records whose player
\* name contains the playerName filter as a case-insensitive substring and
\* whose stat type equals the statType filter case-insensitively.
C19_FiltersIgnoreCase ==
    (out # <<>> /\ out.kind = "get_projections" /\ out.query.sport_id = 0
        /\ \A d \in Elems(projections) : Valid(d)) =>
        out.result.items =
            SelectSeq(projections, LAMBDA d : WantedBy(d, out.query))

\* The name filter alone: "james" returns LeBron James and James Harden and
\* not Kevin Durant.
NameFilterFinds ==
    (out # <<>> /\ out.kind = "get_projections" /\ out.query.stat_type = ""
        /\ out.query.player_name = "james"
        /\ \A d \in Elems(projections) : Valid(d)) =>
        {d.player_name : d \in Elems(out.result.items)} =
            {d.player_name : d \in Elems(MatchingQuery)} \ {"Kevin Durant"}

\* C20: the summary of a known sport reports as projections count the
\* number of stored projections of the sport, as games and players counts
\* the numbers of stored games and players of the sport, and at most 10
\* sample items of each kind.
C20_SummaryCounts ==
    (out # <<>> /\ out.kind = "get_sport_data") =>
        /\ out.result.projections_count =
              Len(Find(projections, out.query.sport_id))
        /\ out.result.games_count = Len(Find(games, out.query.sport_id))
        /\ out.result.players_count = Len(Find(players, out.query.sport_id))
        /\ Len(out.result.projections) <= SampleSize
        /\ Len(out.result.games) <= SampleSize
        /\ Len(out.result.players) <= SampleSize

\* C23: whenever a request is answered 403, the retry is sent with a
\* device identifier and a session token different from those of the
\* request that received the 403.
C23_RotatedAfter403 ==
    \A j \in 2..Len(sent) :
        sent[j - 1].status = "403" => sent[j].ident # sent[j - 1].ident

\* A request answered 403 has been retried.
C23_Witness ==
    \E j \in 2..Len(sent) : sent[j - 1].status = "403" /\ sent[j].retry = 0

\* C24: on HTTP 429 the retry is not sent before base + jitter has
\* elapsed, base being the Retry-After value or else 5 seconds and jitter
\* at least 0.1 second.
C24_WaitBefore429Retry ==
    \A j \in 2..Len(sent) :
        sent[j - 1].status = "429" =>
            sent[j].at - sent[j - 1].at >= HandleRateLimit

\* C25: under persistent 5xx answers each backoff interval of the
\* consecutive retries (backoff factor 1.5) is strictly greater than the
\* one before it.
C25_BackoffGrows ==
    \A j \in 3..Len(sent) :
        sent[j].retry >= 2 =>
            sent[j].at - sent[j - 1].at > sent[j - 1].at - sent[j - 2].at

\* Every retry the adapter has was made, against an upstream that is down.
C25_Witness ==
    /\ upstream = "down"
    /\ \E j \in 1..Len(sent) : sent[j].retry = RetryTotal

\* C27: once a refresh of sport S that built a new generation has
\* completed, the store holds no projection built by an earlier refresh of
\* S, whatever league the projection's own record names.
C27_NoEarlierGeneration ==
    \A i \in 1..Len(projections) :
       \A g, h \in 1..Len(out) :
          (/\ out[g].current_time = projections[i].last_updated
           /\ g < h
           /\ out[h].sport = out[g].sport)
          => out[h].normalized = 0

\* C28: when the refreshes so far all asked for the same sport S and none
\* is still running, no two stored projections of S have the same id.
C28_OneProjectionPerId ==
    \A s \in Sports :
       (/\ \A w \in Refreshers : rf[w].pc \in {"idle", "done"}
        /\ \A w \in Refreshers : rf[w].pc = "done" => rf[w].sport = s
        /\ Cardinality({w \in Refreshers : rf[w].pc = "done"}) = refreshes)
       => \A i, j \in 1..Len(projections) :
             (/\ i # j
              /\ projections[i].sport_id = s
              /\ projections[j].sport_id = s)
             => projections[i].id # projections[j].id

\* C21: get_sport_data for a sport absent from the sports list gives the
\* caller an outcome of another kind (exception class, HTTP status) than
\* the one it gives when the upstream fetch fails.
C21_NotFoundDistinct ==
    out.cause = "unknown_sport"
    => <<out.outcome.exc, out.outcome.status>>
       # <<SportDataOutcome("fetch_failed").exc,
           SportDataOutcome("fetch_failed").status>>

\* C22: refresh_all_data() has refreshed the active sports among those it
\* has passed in the list, in the list's order and each once, no inactive
\* one, and after each refresh it has slept at least the minimum delay
\* before it began the next; when it returns it has passed the whole list.
C22_ActiveSportsInOrder ==
    out.fn = "refresh_all_data" =>
       LET passed == SubSeq(out.sports, 1, out.i - 1)
           active == SelectSeq(passed, LAMBDA sport : sport.active)
       IN  /\ Len(out.refreshed) = Len(active)
           /\ \A n \in 1..Len(out.refreshed) :
                 /\ out.refreshed[n].sport = active[n].id
                 /\ out.refreshed[n].woke - out.refreshed[n].slept
                    >= Secs(DelayMinSec)
                 /\ n > 1 => out.refreshed[n].at >= out.refreshed[n - 1].woke
                 /\ \A m \in 1..Len(out.refreshed) :
                       m # n => out.refreshed[m].sport # out.refreshed[n].sport
           /\ (out.pc = "done" /\ out.error = "none")
              => out.i = Len(out.sports) + 1

C22_Witness ==
    /\ out.fn = "refresh_all_data"
    /\ out.pc = "done"
    /\ out.error = "none"
    /\ Len(out.refreshed) >= 2
    /\ \E i \in 1..Len(out.sports) : ~out.sports[i].active

\* C26: when a run of the scheduled job has ended, refresh_all_data has
\* been invoked once for each sport get_sports returned.
C26_JobRefreshesEverySport ==
    (out.fn = "refresh_all_sports" /\ out.pc = "done" /\ out.sports # <<>>)
    => out.invoked = [i \in 1..Len(out.sports) |-> out.sports[i].id]

\* C29: a call that finds a non-empty list cached on its scraper less than
\* CACHE_EXPIRY after the time the list was fetched at returns that list
\* and issues no request; one that finds it CACHE_EXPIRY old or older
\* issues a request, and the list it fetched is the cached one afterwards.
C29_CacheServesTillExpiry ==
    (out.fn # "none" /\ out.before.own /\ out.before.sports_cache # <<>>)
    => IF out.at - out.before.sports_cache_time < Secs(CACHE_EXPIRY)
       THEN /\ ~out.requested
            /\ ~out.raised
            /\ out.sports = out.before.sports_cache
       ELSE /\ out.requested
            /\ ~out.raised
               => /\ scrapers[out.k].sports_cache = out.sports
                  /\ scrapers[out.k].sports_cache_time = out.at

C29_Witness ==
    /\ out.fn = "get_sports"
    /\ out.before.own
    /\ out.before.sports_cache # <<>>
    /\ out.at - out.before.sports_cache_time = Secs(CACHE_EXPIRY)
    /\ out.requested
    /\ ~out.raised
    /\ out.sports # out.before.sports_cache
    /\ scrapers[out.k].sports_cache = out.sports

C29_WitnessServed ==
    /\ out.fn = "get_sports"
    /\ out.before.own
    /\ out.before.sports_cache # <<>>
    /\ out.at > out.before.sports_cache_time
    /\ ~out.requested

\* C30: a call made while another scraper holds a list it fetched less
\* than CACHE_EXPIRY ago issues no upstream request.
C30_CacheSharedByInstances == out.shared => ~out.requested

\* What the refill of a call at time at makes of the tokens it found.
Refilled(before, at) ==
    IF before.tokens + (at - before.last_update) * Rate <= Burst * OneToken
    THEN before.tokens + (at - before.last_update) * Rate
    ELSE Burst * OneToken

\* C34: the tokens stay between 0 and the burst; an acquire() that finds
\* less than one token after its refill returns a positive wait and leaves
\* the refilled tokens as they are, and one that finds a token or more
\* returns no wait and leaves one token less than the refill gave.
C34_TokensBounded ==
    /\ rate_limiter.tokens >= 0
    /\ rate_limiter.tokens <= Burst * OneToken
    /\ out.called =>
          IF Refilled(out.before, out.at) < OneToken
          THEN /\ out.wait > 0
               /\ rate_limiter.tokens = Refilled(out.before, out.at)
          ELSE /\ out.wait = 0
               /\ rate_limiter.tokens = Refilled(out.before, out.at) - OneToken

\* An acquire() has found the bucket short of a token, after earlier calls
\* took the burst and time refilled a part.
C34_Witness ==
    /\ out.called
    /\ out.wait > 0
    /\ out.before.tokens > 0
    /\ out.at > 0

\* C32: when refresh_all_data() has ended, every active sport of the list
\* has been refreshed, but for the one whose fetch failed.
C32_FailureSkipsOnlyThatSport ==
    (out.fn = "refresh_all_data" /\ out.pc = "done") =>
       \A n \in 1..Len(out.sports) :
          (out.sports[n].active /\ ~(out.error = "Exception" /\ n = out.i))
          => \E m \in 1..Len(out.refreshed) :
                out.refreshed[m].sport = out.sports[n].id

C33_EmbeddedAreOwn ==
    out.kind = "get_players" =>
       \A k \in DOMAIN out.result :
          \A j \in 1..Len(out.result[k].projections) :
             out.result[k].projections[j].player_id = out.result[k].id

====
